---- MODULE Spec2Model ----
(***************************************************************************)
(* A model of src/renew.py: the DNSHE subdomain auto-renewal batch job.    *)
(*                                                                         *)
(* Text is modelled as a tuple of string tokens, so that concatenation     *)
(* (f-strings, +=) is \o and "contains" is being a subsequence.  JSON     *)
(* scalars that are not text are the one-token tuples ABSENT (key not in   *)
(* the object), NULL, JTRUE and JFALSE; the empty string is << >>.         *)
(***************************************************************************)
EXTENDS Naturals, Sequences, FiniteSets

VARIABLES
    env,          \* os.getenv("ACCOUNTS_JSON"): the raw configuration input
    accounts,     \* main: the parsed account list (<< >> before parsing)
    pc,           \* position of main
    idx,          \* main: index of the account being processed (0-based)
    all_results,  \* main: the report, one {account_index, result} per account
    subdomains,   \* process_account: the list being walked
    pos,          \* process_account: number of list entries consumed
    results,      \* process_account: the {domain, result} pairs so far
    calls,        \* history: every request handed to requests.get/post
    output,       \* content written to GITHUB_STEP_SUMMARY (<< >> if none)
    exit_code,    \* process exit status (0 while running)
    args,         \* function-level harness: the arguments of the call
    ret           \* function-level harness: the value returned

vars == <<env, accounts, pc, idx, all_results, subdomains, pos, results,
          calls, output, exit_code, args, ret>>

-----------------------------------------------------------------------------
(* Bounds of the model *)

MaxAccounts == 2
MaxSubs == 2

-----------------------------------------------------------------------------
(* JSON / Python values *)

ABSENT == <<"#absent">>
NULL == <<"#null">>
JTRUE == <<"#true">>
JFALSE == <<"#false">>
EMPTY == << >>

\* Python truthiness of a value: None, False and "" are falsy
Truthy(v) == v \notin {ABSENT, NULL, JFALSE, EMPTY}

\* dict.get(k): None when the key is absent
PyGet(v) == IF v = ABSENT THEN NULL ELSE v

\* dict.get(k, default)
PyGetDefault(v, d) == IF v = ABSENT THEN d ELSE v

\* Python's `a or b`
PyOr(a, b) == IF Truthy(a) THEN a ELSE b

\* str(v) inside an f-string
PyStr(v) == IF v \in {ABSENT, NULL} THEN <<"None">> ELSE v

Contains(text, part) ==
    \E i \in 1..Len(text) : \E n \in 1..Len(part) :
        /\ i + n - 1 <= Len(text)
        /\ n = Len(part)
        /\ SubSeq(text, i, i + n - 1) = part

-----------------------------------------------------------------------------
(* HTTP *)

Statuses == {200, 401, 403, 429, 500}

StatusStr(s) ==
    CASE s = 200 -> "200"
      [] s = 401 -> "401"
      [] s = 403 -> "403"
      [] s = 429 -> "429"
      [] s = 500 -> "500"
      [] OTHER -> "0"

HINT_403 == <<"(domain not yet in renewal window; renew within 180 days before expiry)">>
HINT_401 == <<"(authentication failed; check API Key/Secret)">>
HINT_429 == <<"(too many requests; retry later)">>

NoSubdomains == [k |-> "absent", items |-> << >>]

\* a normalized failure built by call_api itself
ApiFailure(msg, status) ==
    [isdict |-> TRUE, success |-> JFALSE, message |-> ABSENT, error |-> msg,
     http_status |-> status, new_expires_at |-> ABSENT,
     subdomains |-> NoSubdomains]

\* resp.json() of a JSON body: the parsed value, returned as it is
ParsedBody(raw) ==
    [isdict |-> raw.body = "obj", success |-> raw.success,
     message |-> raw.message, error |-> raw.error, http_status |-> 0,
     new_expires_at |-> raw.new_expires_at, subdomains |-> raw.subdomains]

\* variant: the 403 hint is forgotten
StatusHint_No403(status) ==
    CASE status = 401 -> HINT_401
      [] status = 429 -> HINT_429
      [] OTHER -> << >>

StatusHint(status) ==
    CASE status = 403 -> HINT_403
      [] status = 401 -> HINT_401
      [] status = 429 -> HINT_429
      [] OTHER -> << >>

\* variant: credentials are attached only as a pair
RequestHeaders_BothOrNone(api_key, api_secret) ==
    {"Content-Type"}
        \cup (IF Truthy(api_key) /\ Truthy(api_secret)
              THEN {"X-API-Key", "X-API-Secret"} ELSE {})

\* the headers call_api sends
RequestHeaders(api_key, api_secret) ==
    {"Content-Type"}
        \cup (IF Truthy(api_key) THEN {"X-API-Key"} ELSE {})
        \cup (IF Truthy(api_secret) THEN {"X-API-Secret"} ELSE {})

\* the normalized result of call_api for the raw outcome of the request
Classify(raw) ==
    IF raw.kind = "timeout" THEN ApiFailure(<<"request timed out">>, 0)
    ELSE IF raw.kind = "connerr" THEN ApiFailure(<<"network connection failed">>, 0)
    ELSE IF raw.kind = "exc" THEN ApiFailure(<<"request exception: ", "error">>, 0)
    ELSE IF raw.body = "html" THEN
        ApiFailure(<<"server returned an HTML page (HTTP ", StatusStr(raw.status),
                     "), maybe insufficient permission or login required">>,
                   raw.status)
    ELSE IF raw.body = "text" THEN
        ApiFailure(<<"server returned a non-JSON response (HTTP ",
                     StatusStr(raw.status), ")">>, raw.status)
    ELSE IF raw.status # 200 THEN
        IF raw.body # "obj"
        THEN \* result.get raises AttributeError, caught by `except Exception`
             ApiFailure(<<"request exception: ", "no attribute 'get'">>, 0)
        ELSE ApiFailure(
                 PyOr(PyOr(PyGet(raw.message), PyGet(raw.error)),
                      <<"HTTP ", StatusStr(raw.status)>>)
                     \o StatusHint(raw.status),
                 raw.status)
    ELSE ParsedBody(raw)

call_api(action, method, api_key, api_secret, data, raw) ==
    [request |-> [action |-> action, method |-> method,
                  headers |-> RequestHeaders(api_key, api_secret),
                  data |-> data],
     result |-> Classify(raw)]


\* variant: the error field is preferred to the message field
RenewErrorText_ErrorFirst(result) ==
    PyOr(PyOr(PyGet(result.error), PyGet(result.message)), <<"unknown error">>)

\* renew_subdomain line 97: the message of a failed renewal
RenewErrorText(result) ==
    PyOr(PyOr(PyGet(result.message), PyGet(result.error)), <<"unknown error">>)

\* renew_subdomain: the outcome for the raw outcome of its one request;
\* raised is the AttributeError of result.get on a body that is no object
renew_subdomain(api_key, api_secret, subdomain_id, full_domain, raw) ==
    LET c == call_api("renew", "POST", api_key, api_secret, subdomain_id, raw)
        result == c.result
    IN  [request |-> c.request,
         result |-> result,
         raised |-> ~result.isdict,
         outcome |->
            IF ~result.isdict THEN [status |-> "raised", message |-> << >>]
            ELSE IF Truthy(PyGet(result.success))
            THEN [status |-> "success",
                  message |-> <<"renewed, new expiry ">>
                      \o PyStr(PyGetDefault(result.new_expires_at, <<"unknown">>))]
            ELSE [status |-> "failed",
                  message |-> RenewErrorText(result)]]

\* process_account, line 134: the name a list entry is reported under
FullDomain(sub) ==
    PyOr(PyGet(sub.full_domain),
         PyStr(PyGet(sub.subdomain)) \o <<".">> \o PyStr(PyGet(sub.rootdomain)))

-----------------------------------------------------------------------------
(* The values process_account returns *)

NullResult == [k |-> "null", error |-> << >>, message |-> << >>, results |-> << >>]
ErrorResult(msg) == [k |-> "error", error |-> msg, message |-> << >>, results |-> << >>]
MessageResult(msg) == [k |-> "message", error |-> << >>, message |-> msg, results |-> << >>]
ResultsResult(rs) == [k |-> "results", error |-> << >>, message |-> << >>, results |-> rs]

LIST_FAILED == <<"failed to fetch the list">>
NO_SUBDOMAINS == <<"no subdomains">>

-----------------------------------------------------------------------------
(* Report rendering, main lines 170-195 *)

Digit(n) ==
    CASE n = 0 -> "0" [] n = 1 -> "1" [] n = 2 -> "2" [] n = 3 -> "3"
      [] n = 4 -> "4" [] n = 5 -> "5" [] n = 6 -> "6" [] n = 7 -> "7"
      [] n = 8 -> "8" [] OTHER -> "9"

RECURSIVE NumStr(_)
NumStr(n) == IF n < 10 THEN <<Digit(n)>> ELSE NumStr(n \div 10) \o <<Digit(n % 10)>>

RECURSIVE RenderRows(_)
RenderRows(rs) ==
    IF rs = << >> THEN << >>
    ELSE LET r == Head(rs)
             status_icon == IF r.result.status = "success" THEN "OK" ELSE "X"
         IN  (<<"| ">> \o r.domain \o <<" | ", status_icon, " | ">>
                 \o r.result.message \o <<" |\n">>)
             \o RenderRows(Tail(rs))

RenderAccount(n, res) ==
    <<"## account ">> \o NumStr(n) \o <<"\n\n">> \o
    (IF res.k = "null" THEN <<"account configuration invalid, skipped\n\n">>
     ELSE IF res.k = "error" THEN <<"X processing failed: ">> \o res.error \o <<"\n\n">>
     ELSE IF res.k = "message" THEN <<"i ">> \o res.message \o <<"\n\n">>
     ELSE IF res.results = << >> THEN <<"no subdomains\n\n">>
     ELSE <<"| domain | status | details |\n", "|------|------|----------|\n">>
              \o RenderRows(res.results) \o <<"\n">>)

RECURSIVE RenderAccounts(_, _)
RenderAccounts(rs, n) ==
    IF rs = << >> THEN << >>
    ELSE RenderAccount(n, Head(rs).result) \o RenderAccounts(Tail(rs), n + 1)

\* variant: the closing notice is stamped with the clock too
Render_StampedFooter(rs, now) ==
    <<"# DNSHE free domain renewal results\n\n", "run time: ", now, "\n\n">>
        \o RenderAccounts(rs, 1)
        \o <<"---\n", "> renewal task finished at ", now, "\n">>

\* the whole content written to the summary file when the clock reads `now`
Render(rs, now) ==
    <<"# DNSHE free domain renewal results\n\n", "run time: ", now, "\n\n">>
        \o RenderAccounts(rs, 1)
        \o <<"---\n", "> renewal task finished, see the workflow log for details.\n">>


-----------------------------------------------------------------------------
(* Inputs: the configuration *)

CredValues == {ABSENT, NULL, EMPTY, <<"cred">>}

\* the elements an ACCOUNTS_JSON array may hold: objects with a key and a
\* secret, with one of the two absent, null or empty, or with neither, and
\* one value that is no object (a JSON string, number, null or array)
AccountShapes ==
    {a \in [isobj : {TRUE}, key : CredValues, secret : CredValues] :
        \/ a.key = <<"cred">>
        \/ a.secret = <<"cred">>
        \/ (a.key = ABSENT /\ a.secret = ABSENT)}
        \cup {[isobj |-> FALSE, key |-> ABSENT, secret |-> ABSENT]}

RECURSIVE SeqsUpTo(_, _)
SeqsUpTo(S, n) ==
    IF n = 0 THEN {<< >>}
    ELSE LET shorter == SeqsUpTo(S, n - 1)
         IN  shorter \cup {Append(q, x) : q \in {r \in shorter : Len(r) = n - 1}, x \in S}

\* the environment value: unset, or a text that is empty, not JSON, JSON
\* of a type that is no array, or a JSON array
EnvInputs ==
    {[set |-> FALSE, kind |-> "unset", items |-> << >>]}
        \cup [set : {TRUE}, kind : {"empty", "garbage", "object", "string",
                                    "number", "null"}, items : {<< >>}]
        \cup [set : {TRUE}, kind : {"array"},
              items : SeqsUpTo(AccountShapes, MaxAccounts)]

\* json.loads: raises on text that is not JSON, else the value with its type
json_loads(e) ==
    [raised |-> e.kind \in {"empty", "garbage"}, type |-> e.kind, items |-> e.items]

-----------------------------------------------------------------------------
(* Inputs: what the remote end can answer *)

BlankRaw ==
    [kind |-> "http", status |-> 200, body |-> "obj", success |-> ABSENT,
     message |-> ABSENT, error |-> ABSENT, new_expires_at |-> ABSENT,
     subdomains |-> NoSubdomains]

TransportFailures ==
    {[BlankRaw EXCEPT !.kind = kd, !.status = 0, !.body = "none"] :
        kd \in {"timeout", "connerr", "exc"}}

\* bodies that are no JSON object: HTML, other text, a JSON array or scalar
NonObjectBodies(statuses) ==
    {[BlankRaw EXCEPT !.status = s, !.body = b] :
        s \in statuses, b \in {"html", "text", "nonobj"}}

ObjectBodies(statuses, succ, msgs, errs, exps, subs) ==
    {[BlankRaw EXCEPT !.status = s, !.success = su, !.message = m, !.error = e,
                      !.new_expires_at = x, !.subdomains = sd] :
        s \in statuses, su \in succ, m \in msgs, e \in errs, x \in exps, sd \in subs}

SuccessValues == {ABSENT, NULL, JFALSE, JTRUE}
MessageValues == {ABSENT, EMPTY, <<"provider message">>}
ErrorValues == {ABSENT, <<"provider error">>}
ExpiryValues == {ABSENT, NULL, <<"2026-01-01">>}

\* every raw outcome of one request (function-level harness)
AllResponses ==
    TransportFailures \cup NonObjectBodies(Statuses)
        \cup ObjectBodies(Statuses, SuccessValues, MessageValues, ErrorValues,
                          ExpiryValues, {NoSubdomains})

\* the entries a subdomain list may hold
SubA == [isobj |-> TRUE, id |-> <<"id1">>, full_domain |-> <<"a.example.com">>,
         subdomain |-> ABSENT, rootdomain |-> ABSENT]
SubB == [isobj |-> TRUE, id |-> <<"id2">>, full_domain |-> ABSENT,
         subdomain |-> <<"foo">>, rootdomain |-> <<"bar.com">>]
SubNoId == [isobj |-> TRUE, id |-> ABSENT, full_domain |-> <<"c.example.com">>,
            subdomain |-> ABSENT, rootdomain |-> ABSENT]
SubNonObj == [isobj |-> FALSE, id |-> ABSENT, full_domain |-> ABSENT,
              subdomain |-> ABSENT, rootdomain |-> ABSENT]
SubShapes == {SubA, SubB, SubNoId, SubNonObj}

NoRepeat(q) == \A i, j \in 1..Len(q) : q[i] = q[j] => i = j

\* the values of the list response's "subdomains" field: absent, a value
\* that is no list, or a list without repeated entries
SubdomainValues ==
    {NoSubdomains, [k |-> "nonlist", items |-> << >>]}
        \cup {[k |-> "list", items |-> q] :
                q \in {r \in SeqsUpTo(SubShapes, MaxSubs) : NoRepeat(r)}}

\* the answers to a list request during a run: a timeout, an HTML page, a
\* JSON body that is no object, an error status, and JSON objects that
\* report failure or success
ListResponses ==
    {[BlankRaw EXCEPT !.kind = "timeout", !.status = 0, !.body = "none"],
     [BlankRaw EXCEPT !.status = 403, !.body = "html"],
     [BlankRaw EXCEPT !.body = "nonobj"],
     [BlankRaw EXCEPT !.status = 403, !.message = <<"provider message">>]}
        \cup ObjectBodies({200}, {JFALSE}, MessageValues, ErrorValues, {ABSENT},
                          {NoSubdomains})
        \cup ObjectBodies({200}, {JTRUE}, {ABSENT}, {ABSENT}, {ABSENT}, SubdomainValues)

\* the answers to a renew request during a run
RenewResponses ==
    {[BlankRaw EXCEPT !.body = "nonobj"]}
        \cup ObjectBodies({403}, {JFALSE}, {<<"provider message">>}, {ABSENT}, {ABSENT},
                          {NoSubdomains})
        \cup ObjectBodies({200}, {JTRUE}, {ABSENT}, {ABSENT}, {<<"2026-01-01">>},
                          {NoSubdomains})

\* wall-clock readings of datetime.now() at render time
Times == {"2026-01-01 00:00:00", "2026-01-01 00:00:01"}


-----------------------------------------------------------------------------
(* The run: main *)

NoArgs == [fn |-> "main", method |-> "GET", api_key |-> ABSENT, api_secret |-> ABSENT]
NoOutcome == [status |-> "none", message |-> << >>]
NoRet == [raised |-> FALSE, raw |-> BlankRaw, api |-> ApiFailure(<< >>, 0),
          outcome |-> NoOutcome]

Init ==
    /\ env \in EnvInputs
    /\ accounts = << >>
    /\ pc = "start"
    /\ idx = 0
    /\ all_results = << >>
    /\ subdomains = << >>
    /\ pos = 0
    /\ results = << >>
    /\ calls = << >>
    /\ output = << >>
    /\ exit_code = 0
    /\ args = NoArgs
    /\ ret = NoRet

\* what the history keeps of one request: what was sent, for which account,
\* and what call_api returned for it
Sent(account, c) ==
    [account |-> account, action |-> c.request.action, method |-> c.request.method,
     headers |-> c.request.headers, data |-> c.request.data, returned |-> c.result]

\* variant: `and` in place of `or`
CredentialsMissing_Both(account) ==
    ~Truthy(PyGet(account.key)) /\ ~Truthy(PyGet(account.secret))

\* process_account line 109: `not api_key or not api_secret`
CredentialsMissing(account) ==
    ~Truthy(PyGet(account.key)) \/ ~Truthy(PyGet(account.secret))

\* variant: the error field is preferred to the message field
ListErrorText_ErrorFirst(list_res) ==
    PyOr(PyOr(PyGet(list_res.error), PyGet(list_res.message)), LIST_FAILED)

\* process_account line 122: the message of the error marker
ListErrorText(list_res) ==
    PyOr(PyOr(PyGet(list_res.message), PyGet(list_res.error)), LIST_FAILED)

\* variant: the identifier test is dropped
HasIdentifier_Always(sub) == TRUE

\* process_account line 135: `if not sub_id: continue`
HasIdentifier(sub) == Truthy(PyGet(sub.id))

\* an exception nobody catches: the interpreter prints it and exits with 1
Raise ==
    /\ pc' = "crashed"
    /\ exit_code' = 1

\* variant: the isinstance(accounts, list) test is dropped
ReadConfig_NoTypeCheck ==
    /\ pc = "start"
    /\ LET parsed == json_loads(env)
       IN  IF ~env.set \/ env.kind = "empty" \/ parsed.raised
           THEN /\ pc' = "exit"
                /\ exit_code' = 1
                /\ UNCHANGED accounts
           ELSE /\ pc' = "loop"
                /\ accounts' = parsed.items
                /\ UNCHANGED exit_code
    /\ UNCHANGED <<env, idx, all_results, subdomains, pos, results, calls, output,
                   args, ret>>

\* main, lines 145-156: read and parse ACCOUNTS_JSON
ReadConfig ==
    /\ pc = "start"
    /\ LET parsed == json_loads(env)
       IN  IF ~env.set \/ env.kind = "empty" \/ parsed.raised \/ parsed.type # "array"
           THEN /\ pc' = "exit"
                /\ exit_code' = 1
                /\ UNCHANGED accounts
           ELSE /\ pc' = "loop"
                /\ accounts' = parsed.items
                /\ UNCHANGED exit_code
    /\ UNCHANGED <<env, idx, all_results, subdomains, pos, results, calls, output,
                   args, ret>>

\* variant: the index is counted from one
Report_OneBased(res) ==
    /\ all_results' = Append(all_results, [account_index |-> idx + 1, result |-> res])
    /\ idx' = idx + 1
    /\ pc' = "loop"

\* main line 162: all_results.append({"account_index": idx, "result": res})
Report(res) ==
    /\ all_results' = Append(all_results, [account_index |-> idx, result |-> res])
    /\ idx' = idx + 1
    /\ pc' = "loop"

\* process_account, lines 107-111, of an element that is an object without
\* a usable key or secret
SkipAccount ==
    /\ pc = "loop"
    /\ idx < Len(accounts)
    /\ LET account == accounts[idx + 1]
       IN  /\ account.isobj
           /\ CredentialsMissing(account)
    /\ Report(NullResult)
    /\ UNCHANGED <<env, accounts, subdomains, pos, results, calls, output,
                   exit_code, args, ret>>

\* process_account, line 107, of an element that is no object:
\* account.get raises AttributeError
AccountRaises ==
    /\ pc = "loop"
    /\ idx < Len(accounts)
    /\ ~accounts[idx + 1].isobj
    /\ Raise
    /\ UNCHANGED <<env, accounts, idx, all_results, subdomains, pos, results,
                   calls, output, args, ret>>

\* process_account, lines 113-131: the list request and what follows from
\* its answer, up to the start of the renewal loop
ListSubdomains ==
    /\ pc = "loop"
    /\ idx < Len(accounts)
    /\ LET account == accounts[idx + 1]
       IN  /\ account.isobj
           /\ ~CredentialsMissing(account)
           /\ \E raw \in ListResponses :
                LET c == call_api("list", "GET", PyGet(account.key),
                                  PyGet(account.secret), ABSENT, raw)
                    list_res == c.result
                    found == list_res.subdomains
                IN  /\ calls' = Append(calls, Sent(idx, c))
                    /\ IF ~list_res.isdict
                       THEN \* list_res.get raises AttributeError
                            /\ Raise
                            /\ UNCHANGED <<idx, all_results, subdomains, pos, results>>
                       ELSE IF ~Truthy(PyGet(list_res.success))
                       THEN /\ Report(ErrorResult(ListErrorText(list_res)))
                            /\ UNCHANGED <<subdomains, pos, results, exit_code>>
                       ELSE IF found.k \in {"absent", "null"}
                               \/ (found.k = "list" /\ found.items = << >>)
                       THEN /\ Report(MessageResult(NO_SUBDOMAINS))
                            /\ UNCHANGED <<subdomains, pos, results, exit_code>>
                       ELSE IF found.k = "nonlist"
                       THEN \* iterating it, or .get on what it yields, raises
                            /\ Raise
                            /\ UNCHANGED <<idx, all_results, subdomains, pos, results>>
                       ELSE /\ pc' = "renew"
                            /\ subdomains' = found.items
                            /\ pos' = 0
                            /\ results' = << >>
                            /\ UNCHANGED <<idx, all_results, exit_code>>
    /\ UNCHANGED <<env, accounts, output, args, ret>>

\* process_account, lines 132-136: an entry without identifier is passed over
SkipSubdomain ==
    /\ pc = "renew"
    /\ pos < Len(subdomains)
    /\ LET sub == subdomains[pos + 1]
       IN  /\ sub.isobj
           /\ ~HasIdentifier(sub)
    /\ pos' = pos + 1
    /\ UNCHANGED <<env, accounts, pc, idx, all_results, subdomains, results, calls,
                   output, exit_code, args, ret>>

\* process_account, line 133, of an entry that is no object: sub.get raises
SubdomainRaises ==
    /\ pc = "renew"
    /\ pos < Len(subdomains)
    /\ ~subdomains[pos + 1].isobj
    /\ Raise
    /\ UNCHANGED <<env, accounts, idx, all_results, subdomains, pos, results,
                   calls, output, args, ret>>

\* process_account, lines 133-141: one entry with an identifier is renewed
RenewSubdomain ==
    /\ pc = "renew"
    /\ pos < Len(subdomains)
    /\ LET sub == subdomains[pos + 1]
           account == accounts[idx + 1]
       IN  /\ sub.isobj
           /\ HasIdentifier(sub)
           /\ \E raw \in RenewResponses :
                LET r == renew_subdomain(PyGet(account.key), PyGet(account.secret),
                                         PyGet(sub.id), FullDomain(sub), raw)
                IN  /\ calls' = Append(calls, Sent(idx, r))
                    /\ IF r.raised
                       THEN /\ Raise
                            /\ UNCHANGED <<pos, results>>
                       ELSE /\ results' = Append(results,
                                   [domain |-> FullDomain(sub), result |-> r.outcome])
                            /\ pos' = pos + 1
                            /\ UNCHANGED <<pc, exit_code>>
    /\ UNCHANGED <<env, accounts, idx, all_results, subdomains, output, args, ret>>

\* process_account line 142 and main line 162: the loop is over
ReturnResults ==
    /\ pc = "renew"
    /\ pos = Len(subdomains)
    /\ Report(ResultsResult(results))
    /\ UNCHANGED <<env, accounts, subdomains, pos, results, calls, output,
                   exit_code, args, ret>>

\* main, lines 168-199: write the summary if a sink is configured, and end
WriteSummary ==
    /\ pc = "loop"
    /\ idx = Len(accounts)
    /\ \E summary_file \in BOOLEAN : \E now \in Times :
          output' = IF summary_file THEN Render(all_results, now) ELSE << >>
    /\ pc' = "done"
    /\ UNCHANGED <<env, accounts, idx, all_results, subdomains, pos, results,
                   calls, exit_code, args, ret>>

Next ==
    \/ ReadConfig
    \/ SkipAccount
    \/ AccountRaises
    \/ ListSubdomains
    \/ SkipSubdomain
    \/ SubdomainRaises
    \/ RenewSubdomain
    \/ ReturnResults
    \/ WriteSummary

Spec == Init /\ [][Next]_vars


-----------------------------------------------------------------------------
(* Function-level harness: call_api and renew_subdomain applied to every    *)
(* combination of credentials and every raw outcome of the request          *)

FnArgs ==
    [fn : {"call_api"}, method : {"GET", "POST"}, api_key : CredValues,
     api_secret : CredValues]
        \cup [fn : {"renew_subdomain"}, method : {"POST"}, api_key : CredValues,
              api_secret : CredValues]

InitFn ==
    /\ env = [set |-> FALSE, kind |-> "unset", items |-> << >>]
    /\ accounts = << >>
    /\ pc = "call"
    /\ idx = 0
    /\ all_results = << >>
    /\ subdomains = << >>
    /\ pos = 0
    /\ results = << >>
    /\ calls = << >>
    /\ output = << >>
    /\ exit_code = 0
    /\ args \in FnArgs
    /\ ret = NoRet

\* call_api(endpoint, action, method, api_key, api_secret, data)
CallApi ==
    /\ pc = "call"
    /\ args.fn = "call_api"
    /\ \E raw \in AllResponses :
          LET c == call_api(IF args.method = "GET" THEN "list" ELSE "renew",
                            args.method, PyGet(args.api_key), PyGet(args.api_secret),
                            ABSENT, raw)
          IN  /\ calls' = Append(calls, Sent(0, c))
              /\ ret' = [raised |-> FALSE, raw |-> raw, api |-> c.result,
                         outcome |-> NoOutcome]
    /\ pc' = "returned"
    /\ UNCHANGED <<env, accounts, idx, all_results, subdomains, pos, results,
                   output, exit_code, args>>

\* renew_subdomain(api_key, api_secret, subdomain_id, full_domain)
CallRenew ==
    /\ pc = "call"
    /\ args.fn = "renew_subdomain"
    /\ \E raw \in AllResponses :
          LET r == renew_subdomain(PyGet(args.api_key), PyGet(args.api_secret),
                                   SubA.id, FullDomain(SubA), raw)
          IN  /\ calls' = Append(calls, Sent(0, r))
              /\ ret' = [raised |-> r.raised, raw |-> raw, api |-> r.result,
                         outcome |-> r.outcome]
    /\ pc' = "returned"
    /\ UNCHANGED <<env, accounts, idx, all_results, subdomains, pos, results,
                   output, exit_code, args>>

NextFn ==
    \/ CallApi
    \/ CallRenew

SpecFn == InitFn /\ [][NextFn]_vars


-----------------------------------------------------------------------------
(* Properties *)

Falsy == {ABSENT, NULL, EMPTY}

\* the requests of account a (0-based) with the given action, in order
CallsOf(a, act) == SelectSeq(calls, LAMBDA c : c.account = a /\ c.action = act)

\* the list entries that carry an identifier, in list order
Identified(items) == SelectSeq(items, LAMBDA sub : sub.isobj /\ sub.id \notin Falsy)

\* the name an entry is reported under: full_domain, else subdomain.rootdomain
DomainOf(sub) ==
    IF sub.full_domain \notin Falsy THEN sub.full_domain
    ELSE sub.subdomain \o <<".">> \o sub.rootdomain

MalformedConfig == ~env.set \/ env.kind # "array"

\* C1: with ACCOUNTS_JSON unset, empty, not JSON or JSON that is no array,
\* main gets no further than its exit, the exit status is nonzero and no
\* request has been sent.
C1_MalformedConfigExits ==
    MalformedConfig =>
        /\ pc \in {"start", "exit"}
        /\ calls = << >>
        /\ all_results = << >>
        /\ pc = "exit" => exit_code # 0
        /\ pc = "start" => ENABLED ReadConfig

C1_Witness ==
    /\ pc = "exit"
    /\ env.set
    /\ env.kind = "object"
    /\ exit_code = 1

\* C2: for every JSON array of accounts and every sequence of answers, the
\* run is never aborted: no exception escapes process_account.
C2_RunNeverAborts ==
    (env.set /\ env.kind = "array") => pc # "crashed"

\* C3: an account (a JSON object) whose key or secret is absent, null or
\* empty gets a null result, and no request is ever sent for it.
C3_MissingCredentialsSkipped ==
    \A i \in 1..Len(accounts) :
        LET account == accounts[i]
        IN  (account.isobj /\ (account.key \in Falsy \/ account.secret \in Falsy)) =>
                /\ \A n \in 1..Len(calls) : calls[n].account # i - 1
                /\ i <= Len(all_results) => all_results[i].result.k = "null"
                /\ (pc = "loop" /\ idx = i - 1) => ENABLED SkipAccount

C3_Witness ==
    \E i \in 1..Len(all_results) :
        /\ accounts[i].isobj
        /\ accounts[i].key = <<"cred">>
        /\ accounts[i].secret = NULL
        /\ all_results[i].result.k = "null"
        /\ calls # << >>

\* C4: when the list response has success false, the account's result is an
\* error marker carrying the response's message, else its error field, and
\* no renew request is sent for that account.
C4_ListFailureIsErrorMarker ==
    \A n \in 1..Len(calls) :
        LET c == calls[n]
            r == c.returned
        IN  (c.action = "list" /\ r.isdict /\ r.success = JFALSE) =>
                /\ \A m \in 1..Len(calls) :
                       calls[m].account = c.account => calls[m].action # "renew"
                /\ c.account < Len(all_results)
                /\ all_results[c.account + 1].result.k = "error"
                /\ r.message \notin Falsy =>
                       all_results[c.account + 1].result.error = r.message
                /\ (r.message \in Falsy /\ r.error \notin Falsy) =>
                       all_results[c.account + 1].result.error = r.error

C4_Witness ==
    \E n \in 1..Len(calls) :
        /\ calls[n].action = "list"
        /\ calls[n].returned.success = JFALSE
        /\ calls[n].returned.message = <<"provider message">>
        /\ calls[n].returned.error = <<"provider error">>
        /\ all_results[calls[n].account + 1].result.error = <<"provider message">>
        /\ pc = "done"

\* C5: after a successful, non-empty list response, the renew requests of
\* the account are, at every moment, the identifiers of the entries that
\* carry one, each once and in list order (never a second attempt, never a
\* request for an entry without identifier); and the result the account
\* returns holds exactly one {domain, outcome} pair per such entry, in list
\* order, the outcome being that of the entry's one request.
C5_OneOutcomePerIdentifiedSubdomain ==
    \A a \in {calls[n].account : n \in 1..Len(calls)} :
        LET lists == CallsOf(a, "list")
            renews == CallsOf(a, "renew")
        IN  /\ Len(lists) <= 1
            /\ renews # << >> => lists # << >>
            /\ (/\ lists # << >>
                /\ lists[1].returned.isdict
                /\ lists[1].returned.success = JTRUE
                /\ lists[1].returned.subdomains.k = "list"
                /\ lists[1].returned.subdomains.items # << >>) =>
                   LET expected == Identified(lists[1].returned.subdomains.items)
                   IN  /\ Len(renews) <= Len(expected)
                       /\ \A n \in 1..Len(renews) : renews[n].data = expected[n].id
                       /\ a < Len(all_results) =>
                            LET res == all_results[a + 1].result
                            IN  /\ res.k = "results"
                                /\ Len(renews) = Len(expected)
                                /\ Len(res.results) = Len(expected)
                                /\ \A n \in 1..Len(expected) :
                                     /\ res.results[n].domain = DomainOf(expected[n])
                                     /\ res.results[n].result.status
                                            \in {"success", "failed"}
                                     /\ res.results[n].result.status = "success"
                                            <=> renews[n].returned.success = JTRUE

C5_Witness ==
    \E a \in 1..Len(all_results) : \E b \in 1..Len(all_results) :
        /\ all_results[a].result.k = "results"
        /\ Len(all_results[a].result.results) = 2
        /\ all_results[a].result.results[1].domain = <<"foo", ".", "bar.com">>
        /\ all_results[a].result.results[1].result.status = "failed"
        /\ all_results[a].result.results[2].domain = <<"a.example.com">>
        /\ all_results[a].result.results[2].result.status = "success"
        /\ Len(CallsOf(a - 1, "renew")) = 2
        /\ CallsOf(b - 1, "list") # << >>
        /\ CallsOf(b - 1, "list")[1].returned.subdomains.items = <<SubNoId, SubA>>
        /\ CallsOf(b - 1, "renew")[1].data = <<"id1">>
        /\ Len(all_results[b].result.results) = 1

\* C9: requests are sent account by account in input order, each account's
\* list request before its renew requests and all of them before the next
\* account's; the report grows one entry per account in input order, with
\* account_index the account's position; at the end it holds one entry per
\* input account, null for the accounts that were skipped.
C9_SequentialInOrder ==
    /\ \A n \in 1..Len(calls) :
          /\ n > 1 => calls[n - 1].account <= calls[n].account
          /\ calls[n].account = idx \/ calls[n].account < Len(all_results)
          /\ calls[n].account < Len(accounts)
          /\ calls[n].action = "list"
                <=> (n = 1 \/ calls[n - 1].account < calls[n].account)
    /\ \A i \in 1..Len(all_results) : all_results[i].account_index = i - 1
    /\ Len(all_results) <= Len(accounts)
    /\ pc = "done" =>
          /\ Len(all_results) = Len(accounts)
          /\ \A i \in 1..Len(accounts) :
                all_results[i].result.k = "null"
                    <=> (accounts[i].key \in Falsy \/ accounts[i].secret \in Falsy)

C9_Witness ==
    /\ pc = "done"
    /\ Len(accounts) = 2
    /\ Len(calls) = 3
    /\ calls[1].account = 0 /\ calls[1].action = "list"
    /\ calls[2].account = 0 /\ calls[2].action = "renew"
    /\ calls[3].account = 1 /\ calls[3].action = "list"
    /\ all_results[2].account_index = 1

WithoutStamp(text) == SubSeq(text, 1, 2) \o SubSeq(text, 4, Len(text))

-----------------------------------------------------------------------------
(* Properties of the functions *)

RenewReturned == pc = "returned" /\ args.fn = "renew_subdomain" /\ ~ret.raised

\* C6: renew_subdomain maps the normalized response to an outcome: success
\* true gives status success with a message that contains new_expires_at, or
\* the placeholder when the field is absent; anything else gives status
\* failed with the message field, else the error field, else the generic
\* text; the status is one of the two.
C6_RenewOutcomeMapping ==
    RenewReturned =>
        /\ ret.outcome.status \in {"success", "failed"}
        /\ ret.api.success = JTRUE =>
              /\ ret.outcome.status = "success"
              /\ ret.api.new_expires_at \notin {ABSENT, NULL} =>
                     Contains(ret.outcome.message, ret.api.new_expires_at)
              /\ ret.api.new_expires_at = ABSENT =>
                     Contains(ret.outcome.message, <<"unknown">>)
        /\ ret.api.success # JTRUE =>
              /\ ret.outcome.status = "failed"
              /\ ret.outcome.message =
                    IF ret.api.message \notin Falsy THEN ret.api.message
                    ELSE IF ret.api.error \notin Falsy THEN ret.api.error
                    ELSE <<"unknown error">>

C6_Witness ==
    /\ RenewReturned
    /\ ret.raw.status = 200
    /\ ret.raw.success = JTRUE
    /\ ret.raw.new_expires_at = <<"2026-01-01">>
    /\ ret.outcome = [status |-> "success",
                      message |-> <<"renewed, new expiry ", "2026-01-01">>]

Renew403 ==
    /\ pc = "returned"
    /\ args.fn = "renew_subdomain"
    /\ ret.raw.kind = "http"
    /\ ret.raw.status = 403

\* C7 as stated: a renewal answered with HTTP 403 fails with a message that
\* includes the 180-day hint, whatever the body.
C7_Hint403WhateverBody ==
    Renew403 => /\ ret.outcome.status = "failed"
                /\ Contains(ret.outcome.message, HINT_403)

\* C7, amended: a renewal answered with HTTP 403 fails; the message ends
\* with the 180-day hint when the body is a JSON object, and otherwise (an
\* HTML page, other text, JSON that is no object) it has no hint: for a body
\* that is not JSON it names the status code instead.
C7_Hint403ForJsonObject ==
    Renew403 =>
        /\ ~ret.raised
        /\ ret.outcome.status = "failed"
        /\ ret.raw.body = "obj" =>
              /\ Contains(ret.outcome.message, HINT_403)
              /\ ret.raw.message \notin Falsy =>
                     ret.outcome.message = ret.raw.message \o HINT_403
        /\ ret.raw.body # "obj" => ~Contains(ret.outcome.message, HINT_403)
        /\ ret.raw.body \in {"html", "text"} => Contains(ret.outcome.message, <<"403">>)

C7_Witness ==
    /\ Renew403
    /\ ret.raw.body = "obj"
    /\ ret.raw.message = ABSENT
    /\ ret.raw.error = ABSENT
    /\ ret.outcome = [status |-> "failed", message |-> <<"HTTP ", "403">> \o HINT_403]

CallApiReturned == pc = "returned" /\ args.fn = "call_api"

\* C8 as stated: when the key or the secret is absent, call_api sends
\* neither credential header.
C8_CredentialsOnlyAsPair ==
    CallApiReturned =>
        \A n \in 1..Len(calls) :
            (args.api_key \in Falsy \/ args.api_secret \in Falsy) =>
                calls[n].headers \cap {"X-API-Key", "X-API-Secret"} = {}

\* C8, amended: call_api sends the key header exactly when the key is
\* present and the secret header exactly when the secret is present, each
\* on its own.
C8_CredentialsIndependent ==
    CallApiReturned =>
        /\ Len(calls) = 1
        /\ "Content-Type" \in calls[1].headers
        /\ "X-API-Key" \in calls[1].headers <=> args.api_key \notin Falsy
        /\ "X-API-Secret" \in calls[1].headers <=> args.api_secret \notin Falsy

C8_Witness ==
    /\ CallApiReturned
    /\ args.api_key = <<"cred">>
    /\ args.api_secret = ABSENT
    /\ calls[1].headers = {"Content-Type", "X-API-Key"}

====
